---- MODULE Spec2Model ----
(***************************************************************************)
(* Bank-App: the account objects of accounts.py, the csv record store of   *)
(* logic.py and the login and dashboard windows of gui.py.                 *)
(*                                                                         *)
(* Money is a Python float in the source.  Here an amount is an integer    *)
(* number of units, Scale units to the dollar, and the arithmetic is       *)
(* exact: the guards keep every interest computation exact, so no          *)
(* rounding of binary floating point is modelled.                          *)
(***************************************************************************)
EXTENDS Integers, Sequences, FiniteSets, TLC

VARIABLES
    obj,            \* the account object under operation (Account or SavingsAccount)
    op,             \* the last call made and what it returned or raised
    interestRuns,   \* history: how many times apply_interest has run on obj
    succDeposits,   \* history: how many deposit calls on obj returned True
    file,           \* dont_look/users.csv: Absent, or its characters
    callers,        \* the set_account_details calls in progress, one per caller
    dash,           \* the DashboardWindow that is open, or NoDashboard
    opened          \* history: the owners who went through create_savings_account

vars == <<obj, op, interestRuns, succDeposits, file, callers, dash, opened>>

\* what the account and store specifications leave alone
gui == <<callers, dash, opened>>

-----------------------------------------------------------------------------
(* Bounds of the model *)

\* cap on the successful deposits made on one object
MaxDeposits == 10
\* cap on the interest applications on one object (each needs two more decimals)
MaxInterest == 2
\* cap, in dollars, on the balance a deposit may bring an object to
MaxBalance == 160
\* cap on the records in the store
MaxRows == 2
\* caps, under the dashboard, on the deposit counter of the window and on the
\* savings deposits of the owner, and, in dollars, on the main balance
MaxSession == 5
MaxMain == 50

RECURSIVE Pow10(_)
Pow10(n) == IF n = 0 THEN 1 ELSE 10 * Pow10(n - 1)

\* decimal places carried by an amount, and units per dollar
Decimals == 2 * MaxInterest
Scale == Pow10(Decimals)

Dollars(n) == n * Scale

\* dont_look/users.csv: absent, or present with its characters
Absent == [exists |-> FALSE, chars |-> <<>>]
File(chars) == [exists |-> TRUE, chars |-> chars]

\* no set_account_details call in progress; no DashboardWindow open
NoCallers == <<>>
NoDashboard == [open |-> FALSE]

-----------------------------------------------------------------------------
(* accounts.py *)

\* SavingsAccount.MINIMUM = 100.0
MINIMUM == Dollars(100)
\* SavingsAccount.RATE = 0.02, as a percentage
RATE_PERCENT == 2

\* An object is its class (kind) and its attribute dictionary; the private
\* names of the source appear here as Python mangles them.
BalanceAttr == "_Account__account_balance"
SavingsBalanceAttr == "_SavingsAccount__account_balance"
DepositCountAttr == "_SavingsAccount__deposit_count"

\* self.<name> = value: creates the attribute when the object lacks it
SetAttr(o, name, value) ==
    [a \in DOMAIN o \cup {name} |-> IF a = name THEN value ELSE o[a]]

\* Account.get_balance: reads self.__account_balance of class Account
get_balance(o) == o[BalanceAttr]

\* Account.set_balance
Account_set_balance_NoClamp(o, value) == SetAttr(o, BalanceAttr, value)
Account_set_balance(o, value) ==
    IF value >= 0
    THEN SetAttr(o, BalanceAttr, value)
    ELSE SetAttr(o, BalanceAttr, 0)

\* SavingsAccount.set_balance.  Written inside class SavingsAccount,
\* self.__account_balance is _SavingsAccount__account_balance: an attribute
\* of its own, not the one get_balance reads.
SavingsAccount_set_balance(o, value) ==
    IF value < MINIMUM
    THEN SetAttr(o, SavingsBalanceAttr, MINIMUM)
    ELSE Account_set_balance(o, value)

\* self.set_balance(...): dispatch on the object's class
set_balance(o, value) ==
    IF o.kind = "SavingsAccount"
    THEN SavingsAccount_set_balance(o, value)
    ELSE Account_set_balance(o, value)

\* Account.__init__, run on an object of class kind
Account_init(kind, balance) ==
    set_balance(SetAttr([kind |-> kind], BalanceAttr, balance), balance)

\* SavingsAccount.__init__
SavingsAccount_init ==
    SetAttr(Account_init("SavingsAccount", MINIMUM), DepositCountAttr, 0)

\* SavingsAccount.get_deposit_counter
get_deposit_counter(o) == o[DepositCountAttr]

\* Account.deposit: the object after the call and the value returned
Account_deposit_ZeroOk(o, amount) ==
    IF amount >= 0
    THEN [obj |-> SetAttr(o, BalanceAttr, get_balance(o) + amount), ret |-> TRUE]
    ELSE [obj |-> o, ret |-> FALSE]
Account_deposit(o, amount) ==
    IF amount > 0
    THEN [obj |-> SetAttr(o, BalanceAttr, get_balance(o) + amount), ret |-> TRUE]
    ELSE [obj |-> o, ret |-> FALSE]

\* Account.withdraw
Account_withdraw_AnySign(o, amount) ==
    IF amount <= get_balance(o)
    THEN [obj |-> SetAttr(o, BalanceAttr, get_balance(o) - amount), ret |-> TRUE]
    ELSE [obj |-> o, ret |-> FALSE]
Account_withdraw(o, amount) ==
    IF amount > 0 /\ amount <= get_balance(o)
    THEN [obj |-> SetAttr(o, BalanceAttr, get_balance(o) - amount), ret |-> TRUE]
    ELSE [obj |-> o, ret |-> FALSE]

\* balance * RATE
Interest(balance) == (balance * RATE_PERCENT) \div 100

\* SavingsAccount.apply_interest
SavingsAccount_apply_interest(o) ==
    set_balance(o, get_balance(o) + Interest(get_balance(o)))

\* SavingsAccount.deposit: the object after the call, the value returned and
\* the number of apply_interest calls it made
SavingsAccount_deposit_InterestFirst(o, amount) ==
    IF amount > 0
    THEN LET counted == SetAttr(o, DepositCountAttr, o[DepositCountAttr] + 1)
         IN  IF get_deposit_counter(counted) % 5 = 0
             THEN [obj |-> Account_deposit(SavingsAccount_apply_interest(counted), amount).obj,
                   ret |-> TRUE, interest |-> 1]
             ELSE [obj |-> Account_deposit(counted, amount).obj,
                   ret |-> TRUE, interest |-> 0]
    ELSE [obj |-> o, ret |-> FALSE, interest |-> 0]
SavingsAccount_deposit_Every4(o, amount) ==
    IF amount > 0
    THEN LET counted == SetAttr(o, DepositCountAttr, o[DepositCountAttr] + 1)
             posted  == Account_deposit(counted, amount).obj
         IN  IF get_deposit_counter(posted) % 4 = 0
             THEN [obj |-> SavingsAccount_apply_interest(posted),
                   ret |-> TRUE, interest |-> 1]
             ELSE [obj |-> posted, ret |-> TRUE, interest |-> 0]
    ELSE [obj |-> o, ret |-> FALSE, interest |-> 0]
SavingsAccount_deposit(o, amount) ==
    IF amount > 0
    THEN LET counted == SetAttr(o, DepositCountAttr, o[DepositCountAttr] + 1)
             posted  == Account_deposit(counted, amount).obj
         IN  IF get_deposit_counter(posted) % 5 = 0
             THEN [obj |-> SavingsAccount_apply_interest(posted),
                   ret |-> TRUE, interest |-> 1]
             ELSE [obj |-> posted, ret |-> TRUE, interest |-> 0]
    ELSE [obj |-> o, ret |-> FALSE, interest |-> 0]

\* SavingsAccount.withdraw
SavingsAccount_withdraw_NoFloor(o, amount) == Account_withdraw(o, amount)
SavingsAccount_withdraw_Strict(o, amount) ==
    IF amount > 0 /\ (get_balance(o) - amount) > MINIMUM
    THEN Account_withdraw(o, amount)
    ELSE [obj |-> o, ret |-> FALSE]
SavingsAccount_withdraw(o, amount) ==
    IF amount > 0 /\ (get_balance(o) - amount) >= MINIMUM
    THEN Account_withdraw(o, amount)
    ELSE [obj |-> o, ret |-> FALSE]

\* obj.deposit(amount), obj.withdraw(amount): dispatch on the object's class
deposit(o, amount) ==
    IF o.kind = "SavingsAccount"
    THEN SavingsAccount_deposit(o, amount)
    ELSE [obj |-> Account_deposit(o, amount).obj,
          ret |-> Account_deposit(o, amount).ret, interest |-> 0]

withdraw(o, amount) ==
    IF o.kind = "SavingsAccount"
    THEN SavingsAccount_withdraw(o, amount)
    ELSE Account_withdraw(o, amount)

\* n calls of deposit(amount) on a SavingsAccount
RECURSIVE DepositTimes(_, _, _)
DepositTimes(o, amount, n) ==
    IF n = 0 THEN o
    ELSE DepositTimes(SavingsAccount_deposit(o, amount).obj, amount, n - 1)

-----------------------------------------------------------------------------
(* Text: a string is its sequence of characters *)

Digits == <<"0", "1", "2", "3", "4", "5", "6", "7", "8", "9">>
IsDigit(c) == \E i \in 1..10 : Digits[i] = c
DigitValue(c) == (CHOOSE i \in 1..10 : Digits[i] = c) - 1

RECURSIVE NatStr(_)
NatStr(n) ==
    IF n < 10 THEN <<Digits[n + 1]>>
    ELSE NatStr(n \div 10) \o <<Digits[(n % 10) + 1]>>

\* str(n) of an int
IntStr(n) == IF n < 0 THEN <<"-">> \o NatStr(-n) ELSE NatStr(n)

\* the k digits of f, zero-padded on the left
RECURSIVE PadDigits(_, _)
PadDigits(f, k) ==
    IF k = 0 THEN <<>>
    ELSE PadDigits(f \div 10, k - 1) \o <<Digits[(f % 10) + 1]>>

RECURSIVE StripZeros(_)
StripZeros(s) ==
    IF Len(s) > 1 /\ s[Len(s)] = "0"
    THEN StripZeros(SubSeq(s, 1, Len(s) - 1))
    ELSE s

\* str(x) of a float: the shortest decimal that reads back as x, with at
\* least one digit after the point (amounts here are between 1e-4 and 1e16
\* in size, or zero, where Python uses no exponent)
FloatStr(x) ==
    LET a == IF x < 0 THEN -x ELSE x
    IN  (IF x < 0 THEN <<"-">> ELSE <<>>)
          \o NatStr(a \div Scale) \o <<".">>
          \o StripZeros(PadDigits(a % Scale, Decimals))

\* the value of a sequence of digits
RECURSIVE DigitsValue(_)
DigitsValue(s) ==
    IF s = <<>> THEN 0
    ELSE 10 * DigitsValue(SubSeq(s, 1, Len(s) - 1)) + DigitValue(s[Len(s)])

AllDigits(s) == \A i \in 1..Len(s) : IsDigit(s[i])

Unsigned(s) == IF s # <<>> /\ s[1] \in {"-", "+"} THEN Tail(s) ELSE s
Signed(s, n) == IF s # <<>> /\ s[1] = "-" THEN -n ELSE n

\* int(s): an optional sign and digits; anything else raises ValueError
\* (surrounding blanks and underscores, which int() also accepts, are not
\* modelled)
ParseInt(s) ==
    LET d == Unsigned(s)
    IN  IF d # <<>> /\ AllDigits(d)
        THEN [ok |-> TRUE, value |-> Signed(s, DigitsValue(d))]
        ELSE [ok |-> FALSE]

\* float(s): an optional sign, digits, and optionally a point and digits, with
\* a digit on at least one side; anything else raises ValueError (exponents,
\* inf, nan and surrounding blanks, which float() also accepts, are not
\* modelled; digits past Decimals places are dropped)
ParseFloat(s) ==
    LET d == Unsigned(s)
        points == {i \in 1..Len(d) : d[i] = "."}
        p == IF points = {} THEN Len(d) + 1 ELSE CHOOSE i \in points : TRUE
        whole == SubSeq(d, 1, p - 1)
        frac == SubSeq(d, p + 1, Len(d))
        kept == SubSeq(frac, 1, IF Len(frac) < Decimals THEN Len(frac) ELSE Decimals)
    IN  IF /\ Cardinality(points) <= 1
           /\ AllDigits(whole) /\ AllDigits(frac)
           /\ Len(whole) + Len(frac) > 0
        THEN [ok |-> TRUE,
              value |-> Signed(s, DigitsValue(whole) * Scale
                            + DigitsValue(kept) * Pow10(Decimals - Len(kept)))]
        ELSE [ok |-> FALSE]

-----------------------------------------------------------------------------
(* The csv module and text-mode files, as logic.py uses them *)

CR == "\r"
LF == "\n"
COMMA == ","
QUOTE == "\""

\* the fieldnames of users.csv
F_user == <<"u", "s", "e", "r">>
F_password == <<"p", "a", "s", "s", "w", "o", "r", "d">>
F_balance == <<"b", "a", "l", "a", "n", "c", "e">>
F_deposit_counter ==
    <<"d", "e", "p", "o", "s", "i", "t", "_", "c", "o", "u", "n", "t", "e", "r">>
F_savings_balance ==
    <<"s", "a", "v", "i", "n", "g", "s", "_", "b", "a", "l", "a", "n", "c", "e">>
fieldnames == <<F_user, F_password, F_balance, F_deposit_counter, F_savings_balance>>

\* csv.writer, excel dialect, QUOTE_MINIMAL: a field holding the delimiter,
\* the quote character or a character of the line terminator is quoted, and
\* the quotes in it are doubled
NeedsQuotes(field) ==
    \E i \in 1..Len(field) : field[i] \in {COMMA, QUOTE, CR, LF}

RECURSIVE DoubleQuotes(_)
DoubleQuotes(field) ==
    IF field = <<>> THEN <<>>
    ELSE (IF Head(field) = QUOTE THEN <<QUOTE, QUOTE>> ELSE <<Head(field)>>)
            \o DoubleQuotes(Tail(field))

WriteField(field) ==
    IF NeedsQuotes(field)
    THEN <<QUOTE>> \o DoubleQuotes(field) \o <<QUOTE>>
    ELSE field

RECURSIVE JoinFields(_)
JoinFields(fields) ==
    IF Len(fields) = 1 THEN WriteField(fields[1])
    ELSE WriteField(Head(fields)) \o <<COMMA>> \o JoinFields(Tail(fields))

\* writer.writerow(fields): the line, ended by "\r\n"; the files are opened
\* for writing with newline="", so the characters reach the file as they are
writerow(fields) == JoinFields(fields) \o <<CR, LF>>

\* DictWriter.writerow(rowdict) and DictWriter.writeheader()
DictWriter_writerow(rowdict) ==
    writerow([i \in 1..Len(fieldnames) |-> rowdict[fieldnames[i]]])
DictWriter_writeheader == writerow(fieldnames)

RECURSIVE DictWriter_writerows(_)
DictWriter_writerows(rowdicts) ==
    IF rowdicts = <<>> THEN <<>>
    ELSE DictWriter_writerow(Head(rowdicts)) \o DictWriter_writerows(Tail(rowdicts))

\* open(path, "r"): text mode with universal newlines, the files being opened
\* for reading without newline="": "\r\n" and a lone "\r" are read as "\n".
\* The characters read for the next character c of the file, after_cr telling
\* whether the character before it was "\r".
UniversalNewlines(after_cr, c) ==
    IF c = CR THEN <<LF>>
    ELSE IF c = LF /\ after_cr THEN <<>>
    ELSE <<c>>

\* csv.reader: one step of the parser of the csv module on character c; p is
\* the parser: its state, the field and the record being read, and the
\* records read.  A line end inside a quoted field belongs to the field,
\* outside it ends the record, and empty lines give no record.  (The field is
\* empty whenever the state is START_RECORD or START_FIELD.)
reader_step(p, c) ==
    IF p.state = "IN_QUOTED_FIELD"
    THEN IF c = QUOTE
         THEN [p EXCEPT !.state = "QUOTE_IN_QUOTED_FIELD"]
         ELSE [p EXCEPT !.field = Append(@, c)]
    ELSE IF c = COMMA
    THEN [p EXCEPT !.state = "START_FIELD", !.field = <<>>,
                   !.row = Append(@, p.field)]
    ELSE IF c \in {LF, CR}
    THEN IF p.state = "START_RECORD"
         THEN p
         ELSE [p EXCEPT !.state = "START_RECORD", !.field = <<>>, !.row = <<>>,
                        !.rows = Append(@, Append(p.row, p.field))]
    ELSE IF c = QUOTE
    THEN IF p.state \in {"START_RECORD", "START_FIELD"}
         THEN [p EXCEPT !.state = "IN_QUOTED_FIELD"]
         ELSE IF p.state = "QUOTE_IN_QUOTED_FIELD"
         THEN [p EXCEPT !.state = "IN_QUOTED_FIELD", !.field = Append(@, QUOTE)]
         ELSE [p EXCEPT !.field = Append(@, QUOTE)]
    ELSE [p EXCEPT !.state = "IN_FIELD", !.field = Append(@, c)]

\* the end of the file: a record not yet ended by a line end is returned
reader_end(p) ==
    IF p.state = "START_RECORD"
    THEN p.rows
    ELSE Append(p.rows, Append(p.row, p.field))

\* reading character c of the file: newline translation, then the parser
ReadChar(p, c) ==
    LET read == UniversalNewlines(p.after_cr, c)
    IN  IF read = <<>>
        THEN [p EXCEPT !.after_cr = FALSE]
        ELSE [reader_step(p, read[1]) EXCEPT !.after_cr = (c = CR)]

\* reading characters lo..hi of the file, in order: the first half, then
\* the second half from where the first ended
RECURSIVE ReadChars(_, _, _, _)
ReadChars(chars, lo, hi, p) ==
    IF lo > hi THEN p
    ELSE IF lo = hi THEN ReadChar(p, chars[lo])
    ELSE LET mid == (lo + hi) \div 2
             first == ReadChars(chars, lo, mid, p)
         IN  IF first.after_cr \in BOOLEAN
             THEN ReadChars(chars, mid + 1, hi, first)
             ELSE first

\* the parser at the start of a file, and after the header line that
\* writeheader writes
ReaderStart ==
    [after_cr |-> FALSE, state |-> "START_RECORD",
     field |-> <<>>, row |-> <<>>, rows |-> <<>>]
ReaderAfterHeader ==
    ReadChars(DictWriter_writeheader, 1, Len(DictWriter_writeheader), ReaderStart)

StartsWith(chars, prefix) ==
    Len(chars) >= Len(prefix) /\ SubSeq(chars, 1, Len(prefix)) = prefix

\* csv.reader(file): the records of the file, read from its first character
\* to its last (a file that starts with the header line is read on from the
\* end of that line, where the parser is ReaderAfterHeader)
reader(chars) ==
    reader_end(
        IF StartsWith(chars, DictWriter_writeheader)
        THEN ReadChars(chars, Len(DictWriter_writeheader) + 1, Len(chars),
                       ReaderAfterHeader)
        ELSE ReadChars(chars, 1, Len(chars), ReaderStart))

\* csv.DictReader(file): the first record names the fields, each further
\* record is a dictionary from those names to its fields (records here are
\* as long as the header)
DictReader(chars) ==
    LET records == reader(chars)
    IN  IF records = <<>> THEN <<>>
        ELSE LET names == records[1]
                 n(r) == IF Len(r) < Len(names) THEN Len(r) ELSE Len(names)
             IN  [k \in 1..(Len(records) - 1) |->
                    [f \in {names[j] : j \in 1..n(records[k + 1])} |->
                        records[k + 1][CHOOSE j \in 1..n(records[k + 1]) :
                                          names[j] = f]]]

-----------------------------------------------------------------------------
(* logic.py *)

\* the rows of dont_look/users.csv as the functions of logic.py read them
Rows(f) == IF f = Absent THEN <<>> ELSE DictReader(f.chars)

\* row["user"] raises KeyError in some row
KeyErrorIn(rows) == \E i \in 1..Len(rows) : F_user \notin DOMAIN rows[i]

\* the first row of a user, 0 when there is none
FirstRowOf(rows, user) ==
    IF \E i \in 1..Len(rows) : rows[i][F_user] = user
    THEN CHOOSE i \in 1..Len(rows) :
            /\ rows[i][F_user] = user
            /\ \A j \in 1..(i - 1) : rows[j][F_user] # user
    ELSE 0

\* check_account(user, password): the value returned
check_account(f, user, password) ==
    LET rows == Rows(f)
    IN  /\ f # Absent
        /\ ~KeyErrorIn(rows)
        /\ \E i \in 1..Len(rows) :
              rows[i][F_user] = user /\ rows[i][F_password] = password

\* add_user(user, password): the file afterwards and the exception raised
NewRow(user, password) ==
    [k \in {fieldnames[j] : j \in 1..Len(fieldnames)} |->
        CASE k = F_user -> user
          [] k = F_password -> password
          [] k = F_balance -> FloatStr(0)
          [] k = F_deposit_counter -> IntStr(0)
          [] k = F_savings_balance -> FloatStr(0)]
add_user(f, user, password) ==
    LET rows == Rows(f)
        header == IF Len(f.chars) = 0 THEN DictWriter_writeheader ELSE <<>>
    IN  IF KeyErrorIn(rows)
        THEN [file |-> f, raised |-> "KeyError"]
        ELSE IF FirstRowOf(rows, user) # 0
        THEN [file |-> f, raised |-> "ValueError"]
        ELSE [file |-> File(f.chars \o header
                              \o DictWriter_writerow(NewRow(user, password))),
              raised |-> "none"]

\* get_user_details(user): the exception raised, or the Account, the deposit
\* counter and the savings balance returned
NotFound == [raised |-> "ValueError", message |-> "User not found"]
\* the loop of get_user_details over the rows read, and the raise after it
DetailsIn(rows, user) ==
    LET found == IF KeyErrorIn(rows) THEN 0 ELSE FirstRowOf(rows, user)
    IN  IF found = 0
        THEN NotFound
        ELSE LET row == rows[found]
                 balance == ParseFloat(row[F_balance])
                 deposit_counter == ParseInt(row[F_deposit_counter])
                 savings_balance == ParseFloat(row[F_savings_balance])
             IN  IF ~balance.ok
                 THEN [raised |-> "ValueError",
                       message |-> "could not convert string to float"]
                 ELSE IF ~deposit_counter.ok
                 THEN [raised |-> "ValueError",
                       message |-> "invalid literal for int()"]
                 ELSE IF ~savings_balance.ok
                 THEN [raised |-> "ValueError",
                       message |-> "could not convert string to float"]
                 ELSE [raised |-> "none",
                       account |-> Account_init("Account", balance.value),
                       deposit_counter |-> deposit_counter.value,
                       savings_balance |-> savings_balance.value]
get_user_details_Propagate(f, user) ==
    IF f = Absent
    THEN [raised |-> "FileNotFoundError", message |-> "dont_look/users.csv"]
    ELSE DetailsIn(Rows(f), user)
get_user_details(f, user) == DetailsIn(Rows(f), user)

\* the loop of set_account_details over the rows read
UpdatedRows_DropOthers(rows, user, account, deposit_counter, savings_account) ==
    SelectSeq([i \in 1..Len(rows) |->
                 [k \in DOMAIN rows[i] |->
                    CASE k = F_balance -> FloatStr(get_balance(account))
                      [] k = F_deposit_counter ->
                            IntStr(get_deposit_counter(savings_account))
                      [] k = F_savings_balance ->
                            FloatStr(get_balance(savings_account))
                      [] OTHER -> rows[i][k]]],
              LAMBDA r : r[F_user] = user)
UpdatedRows(rows, user, account, deposit_counter, savings_account) ==
    [i \in 1..Len(rows) |->
        IF rows[i][F_user] = user
        THEN [k \in DOMAIN rows[i] |->
                CASE k = F_balance -> FloatStr(get_balance(account))
                  [] k = F_deposit_counter ->
                        IntStr(get_deposit_counter(savings_account))
                  [] k = F_savings_balance -> FloatStr(get_balance(savings_account))
                  [] OTHER -> rows[i][k]]
        ELSE rows[i]]

\* set_account_details(user, account, deposit_counter, savings_account): the
\* file afterwards, the exception that reaches the caller and the line
\* printed; FileNotFoundError and any other exception are printed and
\* swallowed (a row lacking "user" raises KeyError before the file is opened
\* for writing)
set_account_details_Create(f, user, account, deposit_counter, savings_account) ==
    LET rows == Rows(f)
    IN  [file |-> File(DictWriter_writeheader
                         \o DictWriter_writerows(
                              UpdatedRows(rows, user, account, deposit_counter,
                                          savings_account))),
         raised |-> "none",
         printed |-> ""]
set_account_details(f, user, account, deposit_counter, savings_account) ==
    LET rows == Rows(f)
    IN  IF f = Absent
        THEN [file |-> f, raised |-> "none",
              printed |-> "Error: users.csv file not found."]
        ELSE IF KeyErrorIn(rows)
        THEN [file |-> f, raised |-> "none", printed |-> "Error: 'user'"]
        ELSE [file |-> File(DictWriter_writeheader
                              \o DictWriter_writerows(
                                   UpdatedRows(rows, user, account,
                                               deposit_counter,
                                               savings_account))),
              raised |-> "none",
              printed |-> ""]

-----------------------------------------------------------------------------
(* The inputs of the account operations *)

\* Account(name, balance): initial balances, a negative one included
InitBalances == {Dollars(-20), Dollars(0), Dollars(30)}
\* deposit and withdraw amounts: negative, zero, positive
Amounts == {Dollars(-10), Dollars(0), Dollars(10), Dollars(50)}
\* set_balance values: negative, below MINIMUM, MINIMUM, above it
Values == {Dollars(-50), Dollars(50), Dollars(100), Dollars(150)}

Init ==
    /\ \/ \E b \in InitBalances :
            /\ obj = Account_init("Account", b)
            /\ op = [name |-> "init", arg |-> b, ret |-> TRUE]
       \/ /\ obj = SavingsAccount_init
          /\ op = [name |-> "init", arg |-> MINIMUM, ret |-> TRUE]
    /\ interestRuns = 0
    /\ succDeposits = 0
    /\ file = Absent
    /\ callers = NoCallers
    /\ dash = NoDashboard
    /\ opened = {}

\* obj.deposit(amount)
Deposit(amount) ==
    /\ succDeposits < MaxDeposits
    /\ get_balance(obj) + amount <= Dollars(MaxBalance)
    /\ LET r == deposit(obj, amount)
       IN  /\ interestRuns + r.interest <= MaxInterest
           /\ obj' = r.obj
           /\ op' = [name |-> "deposit", arg |-> amount, ret |-> r.ret]
           /\ interestRuns' = interestRuns + r.interest
           /\ succDeposits' = succDeposits + (IF r.ret THEN 1 ELSE 0)
    /\ UNCHANGED <<file, gui>>

\* obj.withdraw(amount)
Withdraw(amount) ==
    /\ LET r == withdraw(obj, amount)
       IN  /\ obj' = r.obj
           /\ op' = [name |-> "withdraw", arg |-> amount, ret |-> r.ret]
    /\ UNCHANGED <<interestRuns, succDeposits, file, gui>>

\* obj.set_balance(value)
SetBalance(value) ==
    /\ obj' = set_balance(obj, value)
    /\ op' = [name |-> "set_balance", arg |-> value, ret |-> TRUE]
    /\ UNCHANGED <<interestRuns, succDeposits, file, gui>>

\* obj.apply_interest(), a SavingsAccount method
ApplyInterest ==
    /\ obj.kind = "SavingsAccount"
    /\ interestRuns < MaxInterest
    /\ obj' = SavingsAccount_apply_interest(obj)
    /\ op' = [name |-> "apply_interest", arg |-> 0, ret |-> TRUE]
    /\ interestRuns' = interestRuns + 1
    /\ UNCHANGED <<succDeposits, file, gui>>

Next ==
    \/ \E amount \in Amounts : Deposit(amount)
    \/ \E amount \in Amounts : Withdraw(amount)
    \/ \E value \in Values : SetBalance(value)
    \/ ApplyInterest

Spec == Init /\ [][Next]_vars

-----------------------------------------------------------------------------
(* The record store: the functions of logic.py called one at a time *)

Cents(n) == n * (Scale \div 100)

\* owners, one of them with a carriage return in the name, and a password
\* with the characters the csv writer quotes
Users == {<<"a">>, <<"b">>, <<"c", CR, "d">>}
Passwords == {<<"p", COMMA, QUOTE, CR>>}
\* the Account objects handed to set_account_details
Accounts == {Account_init("Account", Dollars(50)),
             Account_init("Account", Cents(7525))}
\* the deposit_counter argument handed to set_account_details
Counters == {3}
\* the SavingsAccount objects handed to set_account_details: a new one, and
\* one after ten deposits of 10 (balance 207.06)
SavingsAccounts == {SavingsAccount_init,
                    DepositTimes(SavingsAccount_init, Dollars(10), 10)}

StoreInit ==
    /\ obj = SavingsAccount_init
    /\ op = [name |-> "start"]
    /\ interestRuns = 0
    /\ succDeposits = 0
    /\ file \in {Absent, File(<<>>)}
    /\ callers = NoCallers
    /\ dash = NoDashboard
    /\ opened = {}

\* add_user(user, password)
AddUser(user, password) ==
    /\ Len(Rows(file)) < MaxRows
    /\ LET r == add_user(file, user, password)
       IN  /\ file' = r.file
           /\ op' = [name |-> "add_user", user |-> user,
                     password |-> password, raised |-> r.raised]
    /\ UNCHANGED <<obj, interestRuns, succDeposits, gui>>

\* get_user_details(user)
GetUserDetails(user) ==
    /\ op' = [name |-> "get_user_details", user |-> user,
              result |-> get_user_details(file, user)]
    /\ UNCHANGED <<obj, interestRuns, succDeposits, file, gui>>

\* set_account_details(user, account, deposit_counter, savings_account)
SetAccountDetails(user, account, deposit_counter, savings_account) ==
    /\ LET r == set_account_details(file, user, account, deposit_counter,
                                    savings_account)
       IN  /\ file' = r.file
           /\ op' = [name |-> "set_account_details", user |-> user,
                     account |-> account, deposit_counter |-> deposit_counter,
                     savings_account |-> savings_account,
                     raised |-> r.raised, printed |-> r.printed]
    /\ UNCHANGED <<obj, interestRuns, succDeposits, gui>>

\* check_account(user, password)
CheckAccount(user, password) ==
    /\ op' = [name |-> "check_account", user |-> user, password |-> password,
              ret |-> check_account(file, user, password)]
    /\ UNCHANGED <<obj, interestRuns, succDeposits, file, gui>>

StoreNext ==
    \/ \E user \in Users, password \in Passwords : AddUser(user, password)
    \/ \E user \in Users : GetUserDetails(user)
    \/ \E user \in Users, password \in Passwords : CheckAccount(user, password)
    \/ \E user \in Users, account \in Accounts, deposit_counter \in Counters,
          savings_account \in SavingsAccounts :
            SetAccountDetails(user, account, deposit_counter, savings_account)

StoreSpec == StoreInit /\ [][StoreNext]_vars

-----------------------------------------------------------------------------
(* set_account_details called by two callers at once: no lock is taken, so   *)
(* a call is two steps, the read of the file (its first with block) and the  *)
(* rewrite (its second), and the steps of two calls interleave               *)

Callers == {1, 2}
RaceUsers == {<<"a">>, <<"b">>}
RacePassword == <<"p", "w">>

\* a caller that has not called yet
Idle ==
    [pc |-> "idle", user |-> <<>>, account |-> Account_init("Account", 0),
     savings_account |-> SavingsAccount_init, updated_rows |-> <<>>,
     stale |-> FALSE, wrote |-> 0]

\* the file with the records of RaceUsers, as two add_user calls leave it
TwoUsers ==
    add_user(add_user(Absent, <<"a">>, RacePassword).file,
             <<"b">>, RacePassword).file

RaceInit ==
    /\ obj = SavingsAccount_init
    /\ op = [name |-> "start"]
    /\ interestRuns = 0
    /\ succDeposits = 0
    /\ file = TwoUsers
    /\ callers = [c \in Callers |-> Idle]
    /\ dash = NoDashboard
    /\ opened = {}

\* the first with block of set_account_details: the rows are read and the
\* rows of user updated, in updated_rows (history: stale becomes true when
\* another caller rewrites the file after this read)
SaveRead(c, user, account, deposit_counter, savings_account) ==
    /\ callers[c].pc = "idle"
    /\ file # Absent
    /\ callers' = [callers EXCEPT ![c] =
            [pc |-> "read", user |-> user, account |-> account,
             savings_account |-> savings_account,
             updated_rows |-> UpdatedRows(Rows(file), user, account,
                                          deposit_counter, savings_account),
             stale |-> FALSE, wrote |-> 0]]
    /\ UNCHANGED <<obj, op, interestRuns, succDeposits, file, dash, opened>>

\* the second with block of set_account_details: the file is truncated and
\* updated_rows written (history: wrote is the position of this rewrite
\* among the rewrites)
SaveWrite_Reread(c) ==
    /\ callers[c].pc = "read"
    /\ file' = set_account_details(file, callers[c].user, callers[c].account,
                                   0, callers[c].savings_account).file
    /\ callers' = [d \in Callers |->
            IF d = c
            THEN [callers[d] EXCEPT
                    !.pc = "done",
                    !.wrote = 1 + Cardinality({e \in Callers :
                                                callers[e].pc = "done"})]
            ELSE IF callers[d].pc = "read"
            THEN [callers[d] EXCEPT !.stale = TRUE]
            ELSE callers[d]]
    /\ UNCHANGED <<obj, op, interestRuns, succDeposits, dash, opened>>
SaveWrite(c) ==
    /\ callers[c].pc = "read"
    /\ file' = File(DictWriter_writeheader
                      \o DictWriter_writerows(callers[c].updated_rows))
    /\ callers' = [d \in Callers |->
            IF d = c
            THEN [callers[d] EXCEPT
                    !.pc = "done",
                    !.wrote = 1 + Cardinality({e \in Callers :
                                                callers[e].pc = "done"})]
            ELSE IF callers[d].pc = "read"
            THEN [callers[d] EXCEPT !.stale = TRUE]
            ELSE callers[d]]
    /\ UNCHANGED <<obj, op, interestRuns, succDeposits, dash, opened>>

RaceNext ==
    \/ \E c \in Callers, user \in RaceUsers, account \in Accounts,
          deposit_counter \in Counters, savings_account \in SavingsAccounts :
            SaveRead(c, user, account, deposit_counter, savings_account)
    \/ \E c \in Callers : SaveWrite(c)

RaceSpec == RaceInit /\ [][RaceNext]_vars

-----------------------------------------------------------------------------
(* The record store over a file that was edited outside the program: the    *)
(* numeric fields of the record of "a" may hold text that float() or int()  *)
(* rejects                                                                   *)

BalanceFields == {FloatStr(0), <<"a", "b", "c">>, <<>>}
CounterFields == {IntStr(0), <<"1", ".", "5">>, <<"x">>}
SavingsFields == {FloatStr(0), FloatStr(MINIMUM), <<"$", "1">>}

EditedRow(balance, deposit_counter, savings_balance) ==
    [k \in {fieldnames[j] : j \in 1..Len(fieldnames)} |->
        CASE k = F_user -> <<"a">>
          [] k = F_password -> RacePassword
          [] k = F_balance -> balance
          [] k = F_deposit_counter -> deposit_counter
          [] k = F_savings_balance -> savings_balance]

EditedInit ==
    /\ obj = SavingsAccount_init
    /\ op = [name |-> "start"]
    /\ interestRuns = 0
    /\ succDeposits = 0
    /\ \E balance \in BalanceFields, deposit_counter \in CounterFields,
          savings_balance \in SavingsFields :
            file = File(DictWriter_writeheader
                          \o DictWriter_writerow(
                               EditedRow(balance, deposit_counter,
                                         savings_balance)))
    /\ callers = NoCallers
    /\ dash = NoDashboard
    /\ opened = {}

\* the calls that work on the records there are
EditedNext ==
    \/ \E user \in Users : GetUserDetails(user)
    \/ \E user \in Users, password \in Passwords : CheckAccount(user, password)
    \/ \E user \in Users, account \in Accounts, deposit_counter \in Counters,
          savings_account \in SavingsAccounts :
            SetAccountDetails(user, account, deposit_counter, savings_account)

EditedSpec == EditedInit /\ [][EditedNext]_vars

-----------------------------------------------------------------------------
(* gui.py: the login window and the dashboard of the owner logged in.  Here  *)
(* succDeposits and interestRuns count the successful savings deposits and   *)
(* the interest applications of that owner over all sessions.                *)

\* self.savings_account: SavingsAccount | None
None == [kind |-> "NoneType"]
Truthy(o) == o.kind # "NoneType"

\* DashboardWindow.__init__(username): the window, or NoDashboard when
\* get_user_details raises
DashboardWindow_init(f, username) ==
    LET r == get_user_details(f, username)
    IN  IF r.raised # "none"
        THEN NoDashboard
        ELSE [open |-> TRUE,
              username |-> username,
              account |-> r.account,
              deposit_counter |-> r.deposit_counter,
              savings_account |->
                  IF r.savings_balance > 0
                  THEN set_balance(SavingsAccount_init, r.savings_balance)
                  ELSE None]

\* update_account_info(): the file after the save
update_account_info(d, f) ==
    set_account_details(f, d.username, d.account, d.deposit_counter,
                        IF Truthy(d.savings_account)
                        THEN d.savings_account
                        ELSE SavingsAccount_init).file

\* what the owner types: the password, or another one
GuiUser == <<"a">>
GuiPasswords == {RacePassword, <<"x">>}
\* QInputDialog.getDouble(..., min=0): amounts for the main account and for
\* the savings account; (..., min=100): the opening balance
MainAmounts == {Dollars(0), Dollars(50)}
SavingsAmounts == {Dollars(0), Dollars(10)}
OpeningBalances == {Dollars(100)}

GuiInit ==
    /\ obj = SavingsAccount_init
    /\ op = [name |-> "start"]
    /\ interestRuns = 0
    /\ succDeposits = 0
    /\ file = TwoUsers
    /\ callers = NoCallers
    /\ dash = NoDashboard
    /\ opened = {}

\* LoginWindow.validate_login, with open_dashboard
ValidateLogin(user, password) ==
    /\ ~dash.open
    /\ IF check_account(file, user, password)
       THEN /\ dash' = DashboardWindow_init(file, user)
            /\ op' = [name |-> "validate_login", ret |-> TRUE]
       ELSE /\ dash' = dash
            /\ op' = [name |-> "validate_login", ret |-> FALSE]
    /\ UNCHANGED <<obj, interestRuns, succDeposits, file, callers, opened>>

\* DashboardWindow.deposit_to_main
DepositToMain(amount, ok) ==
    /\ dash.open
    /\ dash.deposit_counter < MaxSession
    /\ get_balance(dash.account) + amount <= Dollars(MaxMain)
    /\ LET r == deposit(dash.account, amount)
           d == [dash EXCEPT !.account = r.obj,
                             !.deposit_counter = @ + 1]
       IN  IF ok /\ r.ret
           THEN /\ dash' = d
                /\ file' = update_account_info(d, file)
                /\ op' = [name |-> "deposit_to_main", ret |-> TRUE]
           ELSE /\ UNCHANGED <<dash, file>>
                /\ op' = [name |-> "deposit_to_main", ret |-> FALSE]
    /\ UNCHANGED <<obj, interestRuns, succDeposits, callers, opened>>

\* DashboardWindow.withdraw_from_main
WithdrawFromMain(amount, ok) ==
    /\ dash.open
    /\ LET r == withdraw(dash.account, amount)
           d == [dash EXCEPT !.account = r.obj]
       IN  IF ok /\ r.ret
           THEN /\ dash' = d
                /\ file' = update_account_info(d, file)
                /\ op' = [name |-> "withdraw_from_main", ret |-> TRUE]
           ELSE /\ UNCHANGED <<dash, file>>
                /\ op' = [name |-> "withdraw_from_main", ret |-> FALSE]
    /\ UNCHANGED <<obj, interestRuns, succDeposits, callers, opened>>

\* DashboardWindow.deposit_to_savings
DepositToSavings(amount, ok) ==
    /\ dash.open
    /\ succDeposits < MaxSession
    /\ IF ~Truthy(dash.savings_account)
       THEN /\ UNCHANGED <<dash, file, interestRuns, succDeposits>>
            /\ op' = [name |-> "deposit_to_savings", ret |-> FALSE]
       ELSE /\ get_balance(dash.savings_account) + amount
                    <= Dollars(MaxBalance)
            /\ LET r == deposit(dash.savings_account, amount)
                   d == [dash EXCEPT !.savings_account = r.obj]
               IN  IF ok /\ r.ret
                   THEN /\ interestRuns + r.interest <= MaxInterest
                        /\ dash' = d
                        /\ file' = update_account_info(d, file)
                        /\ interestRuns' = interestRuns + r.interest
                        /\ succDeposits' = succDeposits + 1
                        /\ op' = [name |-> "deposit_to_savings", ret |-> TRUE]
                   ELSE /\ UNCHANGED <<dash, file, interestRuns, succDeposits>>
                        /\ op' = [name |-> "deposit_to_savings", ret |-> FALSE]
    /\ UNCHANGED <<obj, callers, opened>>

\* DashboardWindow.withdraw_from_savings
WithdrawFromSavings(amount, ok) ==
    /\ dash.open
    /\ IF ~Truthy(dash.savings_account)
       THEN /\ UNCHANGED <<dash, file>>
            /\ op' = [name |-> "withdraw_from_savings", ret |-> FALSE]
       ELSE LET r == withdraw(dash.savings_account, amount)
                d == [dash EXCEPT !.savings_account = r.obj]
            IN  IF ok /\ r.ret
                THEN /\ dash' = d
                     /\ file' = update_account_info(d, file)
                     /\ op' = [name |-> "withdraw_from_savings", ret |-> TRUE]
                ELSE /\ UNCHANGED <<dash, file>>
                     /\ op' = [name |-> "withdraw_from_savings", ret |-> FALSE]
    /\ UNCHANGED <<obj, interestRuns, succDeposits, callers, opened>>

\* DashboardWindow.create_savings_account
CreateSavingsAccount(initial_balance, ok) ==
    /\ dash.open
    /\ IF Truthy(dash.savings_account) \/ ~ok
       THEN /\ UNCHANGED <<dash, file, opened>>
            /\ op' = [name |-> "create_savings_account", ret |-> FALSE]
       ELSE LET d == [dash EXCEPT !.savings_account =
                        set_balance(SavingsAccount_init, initial_balance)]
            IN  /\ dash' = d
                /\ file' = update_account_info(d, file)
                /\ opened' = opened \cup {dash.username}
                /\ op' = [name |-> "create_savings_account", ret |-> TRUE]
    /\ UNCHANGED <<obj, interestRuns, succDeposits, callers>>

\* DashboardWindow.logout
Logout ==
    /\ dash.open
    /\ dash' = NoDashboard
    /\ op' = [name |-> "logout", ret |-> TRUE]
    /\ UNCHANGED <<obj, interestRuns, succDeposits, file, callers, opened>>

GuiNext ==
    \/ \E password \in GuiPasswords : ValidateLogin(GuiUser, password)
    \/ \E amount \in MainAmounts, ok \in BOOLEAN : DepositToMain(amount, ok)
    \/ \E amount \in MainAmounts, ok \in BOOLEAN : WithdrawFromMain(amount, ok)
    \/ \E amount \in SavingsAmounts, ok \in BOOLEAN :
            DepositToSavings(amount, ok)
    \/ \E amount \in SavingsAmounts, ok \in BOOLEAN :
            WithdrawFromSavings(amount, ok)
    \/ \E initial_balance \in OpeningBalances, ok \in BOOLEAN :
            CreateSavingsAccount(initial_balance, ok)
    \/ Logout

GuiSpec == GuiInit /\ [][GuiNext]_vars

-----------------------------------------------------------------------------
(* Properties of the account objects, checked under Spec *)

IsSavings == obj.kind = "SavingsAccount"
IsAccount == obj.kind = "Account"

\* C1: the balance of a SavingsAccount, as get_balance reads it, is at least
\* MINIMUM in every reachable state: after construction and after any
\* sequence of deposit, withdraw, set_balance and apply_interest calls.
C1_SavingsFloor == IsSavings => get_balance(obj) >= MINIMUM

\* a SavingsAccount that has taken deposits, interest and a withdrawal and was
\* then handed a negative value by set_balance
C1_Witness ==
    /\ IsSavings
    /\ op.name = "set_balance" /\ op.arg < 0
    /\ succDeposits >= 5 /\ interestRuns >= 1
    /\ get_balance(obj) >= MINIMUM

\* C2: after SavingsAccount.set_balance(value) get_balance returns MINIMUM
\* when value < MINIMUM and value otherwise.
C2_SetBalanceReadBack ==
    (IsSavings /\ op.name = "set_balance") =>
        get_balance(obj) = (IF op.arg < MINIMUM THEN MINIMUM ELSE op.arg)

\* C4: on a SavingsAccount a deposit applies interest once exactly when it
\* succeeds and brings deposit_count to a multiple of 5, and otherwise posts
\* the amount alone; a failed deposit and any withdrawal apply no interest
\* and leave deposit_count as it was.
C4_InterestTrigger ==
    [][ IsSavings =>
          /\ (op'.name = "deposit" /\ op'.ret) =>
                /\ get_deposit_counter(obj') = get_deposit_counter(obj) + 1
                /\ interestRuns' - interestRuns =
                      (IF get_deposit_counter(obj') % 5 = 0 THEN 1 ELSE 0)
                /\ (get_deposit_counter(obj') % 5 # 0 =>
                      get_balance(obj') = get_balance(obj) + op'.arg)
                /\ (get_deposit_counter(obj') % 5 = 0 =>
                      get_balance(obj') > get_balance(obj) + op'.arg)
          /\ (op'.name = "deposit" /\ ~op'.ret) =>
                /\ interestRuns' = interestRuns
                /\ obj' = obj
          /\ op'.name = "withdraw" =>
                /\ interestRuns' = interestRuns
                /\ get_deposit_counter(obj') = get_deposit_counter(obj)
                /\ get_balance(obj') \in
                      {get_balance(obj), get_balance(obj) - op'.arg}
      ]_vars

\* the fifth successful deposit has just applied the first interest
C4_Witness ==
    /\ IsSavings
    /\ op.name = "deposit" /\ op.ret
    /\ get_deposit_counter(obj) = 5 /\ succDeposits = 5
    /\ interestRuns = 1

\* the balance after five deposits of 10 into a new SavingsAccount
FiveTens == get_balance(DepositTimes(SavingsAccount_init, Dollars(10), 5))

\* C5: when a SavingsAccount deposit of a triggers interest and the balance
\* before is b, the balance after is (b + a) * (1 + RATE), that is the
\* interest gained is (b + a) * RATE; and five deposits of 10 into a new
\* SavingsAccount end at 153.00.
C5_DepositThenInterest ==
    [][ /\ FiveTens = Dollars(153)
        /\ (IsSavings /\ op'.name = "deposit" /\ op'.ret
              /\ get_deposit_counter(obj') % 5 = 0) =>
              (get_balance(obj') - (get_balance(obj) + op'.arg)) * 100
                  = (get_balance(obj) + op'.arg) * RATE_PERCENT
      ]_vars

\* five deposits have brought a new SavingsAccount to 153.00
C5_Witness ==
    /\ IsSavings
    /\ op = [name |-> "deposit", arg |-> Dollars(10), ret |-> TRUE]
    /\ get_deposit_counter(obj) = 5 /\ interestRuns = 1
    /\ get_balance(obj) = Dollars(153)

\* C6: the balance of a plain Account is never negative, whatever the
\* initial balance and the arguments of deposit, withdraw and set_balance;
\* constructing it with, or setting it to, a negative value leaves it at 0.
C6_AccountNonNegative ==
    IsAccount =>
        /\ get_balance(obj) >= 0
        /\ (op.name \in {"set_balance", "init"} /\ op.arg < 0 =>
                get_balance(obj) = 0)

\* a plain Account whose positive balance set_balance(negative) took to 0
C6_Witness ==
    /\ IsAccount
    /\ op.name = "set_balance" /\ op.arg < 0
    /\ succDeposits >= 1
    /\ get_balance(obj) = 0

\* the condition under which C7 says a withdrawal is refused
Refused(o, amount) ==
    \/ amount <= 0
    \/ o.kind = "Account" /\ amount > get_balance(o)
    \/ o.kind = "SavingsAccount" /\ get_balance(o) - amount < MINIMUM

\* C7: withdraw(amount) returns False and leaves the object (balance and
\* deposit_count) unchanged when amount <= 0, or amount > balance on an
\* Account, or balance - amount < MINIMUM on a SavingsAccount.
C7_WithdrawRefused ==
    [][ (op'.name = "withdraw" /\ Refused(obj, op'.arg)) =>
            (~op'.ret /\ obj' = obj) ]_vars

\* a SavingsAccount refused a withdrawal its balance covers, for the floor
C7_Witness ==
    /\ IsSavings
    /\ op.name = "withdraw" /\ ~op.ret
    /\ op.arg > 0 /\ op.arg <= get_balance(obj)
    /\ get_balance(obj) - op.arg < MINIMUM
    /\ get_deposit_counter(obj) >= 1

\* C8: SavingsAccount.withdraw(amount) returns True exactly when amount > 0
\* and balance - amount >= MINIMUM, and then the balance has gone down by
\* exactly amount.
C8_SavingsWithdraw ==
    [][ (IsSavings /\ op'.name = "withdraw") =>
            /\ op'.ret <=>
                  (op'.arg > 0 /\ get_balance(obj) - op'.arg >= MINIMUM)
            /\ op'.ret => get_balance(obj') = get_balance(obj) - op'.arg
      ]_vars

\* a withdrawal that took a SavingsAccount down to exactly MINIMUM
C8_Witness ==
    /\ IsSavings
    /\ op.name = "withdraw" /\ op.ret
    /\ get_balance(obj) = MINIMUM

\* C9: deposit(amount) returns True exactly when amount > 0; when it returns
\* False the object is unchanged; when it returns True on a SavingsAccount
\* deposit_count has gone up by one, so that deposit_count is always the
\* number of successful deposits made on the object.
C9_Deposit ==
    [][ /\ op'.name = "deposit" =>
              /\ op'.ret <=> op'.arg > 0
              /\ ~op'.ret => obj' = obj
              /\ op'.ret => get_balance(obj') >= get_balance(obj) + op'.arg
              /\ (op'.ret /\ IsSavings) =>
                    get_deposit_counter(obj') = get_deposit_counter(obj) + 1
        /\ IsSavings => get_deposit_counter(obj') = succDeposits'
      ]_vars

\* a SavingsAccount with deposits behind it has just refused one
C9_Witness ==
    /\ IsSavings
    /\ op.name = "deposit" /\ ~op.ret /\ op.arg <= 0
    /\ succDeposits >= 2 /\ get_deposit_counter(obj) = succDeposits

-----------------------------------------------------------------------------
(* Properties of the record store, checked under StoreSpec *)

HasRecord(f, user) == FirstRowOf(Rows(f), user) # 0

\* C3: for an owner with a record, get_user_details(owner) right after
\* set_account_details(owner, account, deposit_counter, savings_account)
\* returns the account's balance, the deposit_counter that was passed, and
\* the savings account's balance.
C3_RoundTrip ==
    [][ (/\ op.name = "set_account_details"
         /\ op'.name = "get_user_details"
         /\ op'.user = op.user
         /\ HasRecord(file, op.user)) =>
            /\ op'.result.raised = "none"
            /\ get_balance(op'.result.account) = get_balance(op.account)
            /\ op'.result.deposit_counter = op.deposit_counter
            /\ op'.result.savings_balance = get_balance(op.savings_account)
      ]_vars

\* the owners of the rows, in order
Owners(rows) == [i \in 1..Len(rows) |-> rows[i][F_user]]

C11_DuplicateOwner ==
    [][ (/\ op.name = "add_user" /\ op.raised = "none"
         /\ op'.name = "add_user" /\ op'.user = op.user) =>
            (op'.raised = "ValueError" /\ file' = file) ]_vars

\* what get_user_details returns for a record as add_user writes it
ZeroDetails ==
    [raised |-> "none", account |-> Account_init("Account", 0),
     deposit_counter |-> 0, savings_balance |-> 0]

\* C12: add_user(owner, password) for an owner with no record, on an absent
\* or an existing file, adds one record, and a get_user_details(owner) that
\* follows returns balance 0.0, deposit counter 0 and savings balance 0.0;
\* after 50 is deposited into that account and it is saved,
\* get_user_details(owner) returns balance 50.0.
C12_CreateThenLoad ==
    [][ /\ (op'.name = "add_user" /\ op'.raised = "none") =>
              \A before \in {Rows(file)} : \A after \in {Rows(file')} :
                  /\ file'.exists
                  /\ Len(after) = Len(before) + 1
        /\ (/\ op.name = "add_user" /\ op.raised = "none"
            /\ op'.name = "get_user_details" /\ op'.user = op.user) =>
              op'.result = ZeroDetails
        /\ (/\ op.name = "set_account_details"
            /\ op.account = Account_deposit(ZeroDetails.account, Dollars(50)).obj
            /\ op'.name = "get_user_details" /\ op'.user = op.user
            /\ op'.result # NotFound) =>
              /\ op'.result.raised = "none"
              /\ get_balance(op'.result.account) = Dollars(50)
      ]_vars

\* C13: the file never holds two records with the same owner, as the store
\* reads them, after any sequence of add_user and set_account_details calls
\* made one at a time from an absent or empty file.
C13_OneRecordPerOwner ==
    \A rows \in {Rows(file)} :
        \A i, j \in 1..Len(rows) : rows[i][F_user] = rows[j][F_user] => i = j

RowOf(rows, user) == rows[FirstRowOf(rows, user)]

\* both calls are done, for different owners; p rewrote the file first and q
\* had read the file before that
Raced(p, q) ==
    /\ p # q
    /\ callers[p].pc = "done" /\ callers[q].pc = "done"
    /\ callers[p].user # callers[q].user
    /\ callers[p].wrote < callers[q].wrote
    /\ callers[q].stale

\* C16: when two set_account_details calls for different owners both read
\* the file before either rewrites it, the file ends as the last writer's
\* rows: its own update next to the first writer's record as it was before
\* both calls, so that the first writer's completed update is lost.
C16_LostUpdate ==
    \A p, q \in Callers :
        Raced(p, q) =>
            \A rows \in {Rows(file)} :
                /\ rows = callers[q].updated_rows
                /\ RowOf(rows, callers[q].user)[F_balance]
                      = FloatStr(get_balance(callers[q].account))
                /\ RowOf(rows, callers[p].user)
                      = RowOf(Rows(TwoUsers), callers[p].user)
                /\ RowOf(rows, callers[p].user)
                      # RowOf(callers[p].updated_rows, callers[p].user)

\* two calls for different owners have raced and both have returned
C16_Witness == \E p, q \in Callers : Raced(p, q)

\* the record of user has a balance, deposit_counter or savings_balance that
\* float() or int() rejects
Malformed(f, user) ==
    \A rows \in {Rows(f)} :
        /\ FirstRowOf(rows, user) # 0
        /\ \/ ~ParseFloat(RowOf(rows, user)[F_balance]).ok
           \/ ~ParseInt(RowOf(rows, user)[F_deposit_counter]).ok
           \/ ~ParseFloat(RowOf(rows, user)[F_savings_balance]).ok

\* C17: get_user_details on an owner whose record has an unparseable numeric
\* field fails with an exception of another class than the one it raises for
\* an owner without a record, so that a caller can tell the two apart.
C17_MalformedDistinct ==
    [][ (op'.name = "get_user_details" /\ Malformed(file, op'.user)) =>
            /\ op'.result.raised # "none"
            /\ op'.result.raised # NotFound.raised ]_vars

-----------------------------------------------------------------------------
(* Properties of the dashboard, checked under GuiSpec *)

\* the savings_balance and the deposit_counter stored for a user
Persisted(f, user) ==
    LET r == get_user_details(f, user)
    IN  [savings_balance |-> r.savings_balance,
         deposit_counter |-> r.deposit_counter]

\* C18: for an owner who never went through create_savings_account, the
\* stored savings_balance stays 0 whatever logins, main-account deposits and
\* withdrawals and their saves happen, and the dashboard shows no savings
\* account; a stored savings_balance above 0 belongs to an owner who opened
\* one.
C18_SentinelSafe ==
    \A user \in RaceUsers :
        user \notin opened =>
            /\ Persisted(file, user).savings_balance = 0
            /\ (dash.open /\ dash.username = user) =>
                  ~Truthy(dash.savings_account)

\* C19: the stored deposit_counter is the number of successful savings
\* deposits the owner has made over all sessions, and a successful savings
\* deposit applies interest exactly when it is the 5th, 10th, ... of them,
\* sessions apart or not.
C19_TriggerAcrossSessions ==
    [][ /\ Persisted(file', GuiUser).deposit_counter = succDeposits'
        /\ (op'.name = "deposit_to_savings" /\ op'.ret) =>
              interestRuns' - interestRuns =
                  (IF succDeposits' % 5 = 0 THEN 1 ELSE 0)
      ]_vars

====
